---- MODULE Spec2Model ----
(***************************************************************************)
(* Model of nepali_toolkit.datetime: the Bikram Sambat `date` value type   *)
(* (datetime/__init__.py) and its validation helpers (datetime/helpers.py).*)
(*                                                                         *)
(* The state is what a caller of the module holds: the date object bound   *)
(* to a name (self), and the outcome of the last call made (op, args, ret, *)
(* exc, lookups).  Every public method of `date` is one action.            *)
(*                                                                         *)
(* nepali_toolkit.location is modelled beside it: the tables loaded at     *)
(* import (tables), the lru_cache of the all() methods (cache), the object *)
(* the caller was handed by its last lookup (held) and the outcome of that *)
(* lookup (lop, largs, lret, lexc); nmut counts the caller's writes.       *)
(***************************************************************************)
EXTENDS Integers, Sequences, FiniteSets, TLC

VARIABLES self, op, args, ret, exc, lookups

VARIABLES tables, cache, held, lop, largs, lret, lexc, nmut

datevars == <<self, op, args, ret, exc, lookups>>

locvars == <<tables, cache, held, lop, largs, lret, lexc, nmut>>

vars == <<self, op, args, ret, exc, lookups,
          tables, cache, held, lop, largs, lret, lexc, nmut>>

---------------------------------------------------------------------------
(* Bounds of the model *)

\* number of consecutive years of the calendar table that are modelled
NumYears == 2

\* largest |days| of a timedelta / distance of a Gregorian date from the
\* reference date that is drawn as an input
MaxDelta == 2

\* number of writes the caller makes to the objects the lookups handed out
MaxMutations == 2

---------------------------------------------------------------------------
(* The values of constants.py and of data/calender.json *)

MINYEAR == 2077

MAXYEAR == MINYEAR + NumYears - 1

\* proleptic Gregorian ordinal of the Gregorian date of date(MINYEAR, 1, 1)
REFERENCE_DATE_AD == 737528

\* Nepal Standard Time, UTC+5:45, in seconds
NEPAL_TIME_UTC_OFFSET == 20700

\* month lengths of the almanac, one row of 12 per year
CalendarData ==
  [y \in 2077..2082 |->
     CASE y = 2077 -> <<31, 32, 31, 32, 31, 30, 30, 30, 29, 30, 29, 31>>
       [] y = 2078 -> <<31, 31, 31, 32, 31, 31, 30, 29, 30, 29, 30, 30>>
       [] y = 2079 -> <<31, 31, 32, 31, 31, 31, 30, 29, 30, 29, 30, 30>>
       [] y = 2080 -> <<31, 32, 31, 32, 31, 30, 30, 30, 29, 29, 30, 30>>
       [] y = 2081 -> <<31, 32, 31, 32, 31, 30, 30, 30, 29, 30, 29, 31>>
       [] y = 2082 -> <<31, 31, 32, 31, 31, 31, 30, 29, 30, 29, 30, 30>>]

\* helpers.py: _CALENDAR = json.load(f)
_CALENDAR == [y \in MINYEAR..MAXYEAR |-> CalendarData[y]]

---------------------------------------------------------------------------
(* Python values *)

None == [kind |-> "None"]

NotImplemented == [kind |-> "NotImplemented"]

IntV(n) == [kind |-> "int", val |-> n]

BoolV(b) == [kind |-> "bool", val |-> b]

StrV(s) == [kind |-> "str", text |-> s]

\* a float, by twice its value: FloatV(19) is 9.5
FloatV(twice) == [kind |-> "float", twice |-> twice]

\* a datetime.date of the standard library, by its proleptic ordinal
PyDate(n) == [kind |-> "datetime.date", ordinal |-> n]

\* a datetime.timedelta of the standard library
TimeDelta(n) == [kind |-> "timedelta", days |-> n]

\* an instance of nepali_toolkit.datetime.date (__slots__)
DateObj(y, m, d) == [kind |-> "date", year |-> y, month |-> m, day |-> d]

NoExc == [type |-> "none"]

ValueError(field, value) == [type |-> "ValueError", field |-> field, value |-> value]

TypeError == [type |-> "TypeError"]

AssertionError == [type |-> "AssertionError"]

KeyError == [type |-> "KeyError"]

---------------------------------------------------------------------------
(* helpers.py *)

\* _days_in_month(year, month): the assert, then the table lookup
_days_in_month(year, month) ==
  IF ~(1 <= month /\ month <= 12)
    THEN [exc |-> AssertionError, value |-> 0, lookups |-> <<>>]
  ELSE IF year \notin DOMAIN _CALENDAR
    THEN [exc |-> KeyError, value |-> 0, lookups |-> << <<year, month>> >>]
  ELSE [exc |-> NoExc, value |-> _CALENDAR[year][month],
        lookups |-> << <<year, month>> >>]

\* _check_date_fields with the month tested before the year
_check_date_fields_month_first(year, month, day) ==
  IF ~(1 <= month /\ month <= 12)
    THEN [exc |-> ValueError("month", month), lookups |-> <<>>]
  ELSE IF ~(MINYEAR <= year /\ year <= MAXYEAR)
    THEN [exc |-> ValueError("year", year), lookups |-> <<>>]
  ELSE LET dim == _days_in_month(year, month) IN
    IF dim.exc # NoExc
      THEN [exc |-> dim.exc, lookups |-> dim.lookups]
    ELSE IF ~(1 <= day /\ day <= dim.value)
      THEN [exc |-> ValueError("day", day), lookups |-> dim.lookups]
    ELSE [exc |-> NoExc, lookups |-> dim.lookups]

\* _check_date_fields with the last day of the month rejected
_check_date_fields_day_exclusive(year, month, day) ==
  IF ~(MINYEAR <= year /\ year <= MAXYEAR)
    THEN [exc |-> ValueError("year", year), lookups |-> <<>>]
  ELSE IF ~(1 <= month /\ month <= 12)
    THEN [exc |-> ValueError("month", month), lookups |-> <<>>]
  ELSE LET dim == _days_in_month(year, month) IN
    IF dim.exc # NoExc
      THEN [exc |-> dim.exc, lookups |-> dim.lookups]
    ELSE IF ~(1 <= day /\ day < dim.value)
      THEN [exc |-> ValueError("day", day), lookups |-> dim.lookups]
    ELSE [exc |-> NoExc, lookups |-> dim.lookups]

\* _check_date_fields(year, month, day) on integers
_check_date_fields(year, month, day) ==
  IF ~(MINYEAR <= year /\ year <= MAXYEAR)
    THEN [exc |-> ValueError("year", year), lookups |-> <<>>]
  ELSE IF ~(1 <= month /\ month <= 12)
    THEN [exc |-> ValueError("month", month), lookups |-> <<>>]
  ELSE LET dim == _days_in_month(year, month) IN
    IF dim.exc # NoExc
      THEN [exc |-> dim.exc, lookups |-> dim.lookups]
    ELSE IF ~(1 <= day /\ day <= dim.value)
      THEN [exc |-> ValueError("day", day), lookups |-> dim.lookups]
    ELSE [exc |-> NoExc, lookups |-> dim.lookups]

\* Python's ordering of two tuples of integers of the same length
RECURSIVE TupleGt(_, _)
TupleGt(x, y) ==
  IF x = <<>> \/ y = <<>> THEN Len(x) > Len(y)
  ELSE IF Head(x) # Head(y) THEN Head(x) > Head(y)
  ELSE TupleGt(Tail(x), Tail(y))

\* _compare(x, y)
_compare(x, y) == IF x = y THEN 0 ELSE IF TupleGt(x, y) THEN 1 ELSE -1

---------------------------------------------------------------------------
(* datetime/__init__.py: class date *)

\* int(v) of the builtin, for the values that are drawn as inputs: an int
\* is returned as it is, a float is truncated towards zero, None raises
int(v) ==
  IF v.kind = "int" THEN [exc |-> NoExc, val |-> v.val]
  ELSE IF v.kind = "float"
    THEN [exc |-> NoExc,
          val |-> IF v.twice >= 0 THEN v.twice \div 2
                  ELSE 0 - ((0 - v.twice) \div 2)]
  ELSE [exc |-> TypeError, val |-> 0]

\* date.__new__(cls, year, month=None, day=None)
__new__(year, month, day) ==
  LET y == int(year)
      m == int(month)
      d == int(day)
  IN IF y.exc # NoExc THEN [exc |-> y.exc, lookups |-> <<>>, value |-> None]
     ELSE IF m.exc # NoExc THEN [exc |-> m.exc, lookups |-> <<>>, value |-> None]
     ELSE IF d.exc # NoExc THEN [exc |-> d.exc, lookups |-> <<>>, value |-> None]
     ELSE LET chk == _check_date_fields(y.val, m.val, d.val) IN
       IF chk.exc # NoExc
         THEN [exc |-> chk.exc, lookups |-> chk.lookups, value |-> None]
       ELSE [exc |-> NoExc, lookups |-> chk.lookups,
             value |-> DateObj(y.val, m.val, d.val)]

\* date.__add__(self, other): the body is `pass`
__add__(d, other) == None

\* date.__sub__(self, other): the body is `pass`
__sub__(d, other) == None

\* date.from_datetime_date(cls, from_date); the difference of the two
\* datetime.date values is the standard library's timedelta
from_datetime_date(from_date) ==
  IF from_date.kind # "datetime.date"
    THEN [exc |-> TypeError, lookups |-> <<>>, value |-> None]
  ELSE LET epoch == __new__(IntV(MINYEAR), IntV(1), IntV(1))
           delta == TimeDelta(from_date.ordinal - REFERENCE_DATE_AD)
       IN IF epoch.exc # NoExc
            THEN [exc |-> epoch.exc, lookups |-> epoch.lookups, value |-> None]
          ELSE [exc |-> NoExc, lookups |-> epoch.lookups,
                value |-> __add__(epoch.value, delta)]

\* proleptic Gregorian ordinal of 1970-01-01, the origin of time.gmtime
UnixEpochOrdinal == 719163

\* the (y, m, d) of time.gmtime(secs) as a datetime.date: the day that
\* holds second secs, counted from 1970-01-01 (floor division)
gmtime_date(secs) == PyDate(UnixEpochOrdinal + (secs \div 86400))

\* date.fromtimestamp(cls, t)
fromtimestamp(t) ==
  IF t = None
    THEN [exc |-> TypeError, lookups |-> <<>>, value |-> None]
  ELSE from_datetime_date(gmtime_date(t.val + NEPAL_TIME_UTC_OFFSET))

\* date.year
date_year(d) == d.year

\* date.month
date_month(d) == d.month

\* date.day
date_day(d) == d.day

\* the decimal digits of a natural number, as %d prints them
DigitChar(n) == <<"0", "1", "2", "3", "4", "5", "6", "7", "8", "9">>[n + 1]

RECURSIVE Digits(_)
Digits(n) ==
  IF n < 10 THEN <<DigitChar(n)>>
  ELSE Append(Digits(n \div 10), DigitChar(n % 10))

\* "%d" % n: no padding
ZeroPad_unpadded(n, w) == Digits(n)

\* "%0<w>d" % n for n >= 0
ZeroPad(n, w) ==
  LET ds == Digits(n) IN
    IF Len(ds) >= w THEN ds ELSE [i \in 1..(w - Len(ds)) |-> "0"] \o ds

\* date.isoformat(self) and date.__str__
isoformat(d) ==
  ZeroPad(d.year, 4) \o <<"-">> \o ZeroPad(d.month, 2) \o <<"-">> \o ZeroPad(d.day, 2)

\* replace with `if not month` / `if not day` in place of `is None`
replace_falsy(d, year, month, day) ==
  LET y == IF year = None THEN IntV(d.year) ELSE year
      m == IF month = None \/ month = IntV(0) THEN IntV(d.month) ELSE month
      dd == IF day = None \/ day = IntV(0) THEN IntV(d.day) ELSE day
  IN __new__(y, m, dd)

\* date.replace(self, year=None, month=None, day=None)
replace(d, year, month, day) ==
  LET y == IF year = None THEN IntV(d.year) ELSE year
      m == IF month = None THEN IntV(d.month) ELSE month
      dd == IF day = None THEN IntV(d.day) ELSE day
  IN __new__(y, m, dd)

\* _cmp with the day compared before the month
_cmp_day_before_month(d, other) ==
  IF other.kind # "date" THEN [exc |-> AssertionError, value |-> 0]
  ELSE [exc |-> NoExc,
        value |-> _compare(<<d.year, d.day, d.month>>,
                           <<other.year, other.day, other.month>>)]

\* date._cmp(self, other): the assert, then the comparison of the triples
_cmp(d, other) ==
  IF other.kind # "date" THEN [exc |-> AssertionError, value |-> 0]
  ELSE [exc |-> NoExc,
        value |-> _compare(<<d.year, d.month, d.day>>,
                           <<other.year, other.month, other.day>>)]

\* the result of a comparison operator that went through _cmp: the
\* exception of _cmp if it raised, else the truth value
Compared(c, truth) ==
  IF c.exc # NoExc THEN [exc |-> c.exc, value |-> None]
  ELSE [exc |-> NoExc, value |-> BoolV(truth)]

\* a comparison operator declining an operand of another type
Declined == [exc |-> NoExc, value |-> NotImplemented]

\* date.__eq__(self, other)
__eq__(d, other) ==
  IF other.kind = "date"
    THEN LET c == _cmp(d, other) IN Compared(c, c.value = 0)
  ELSE Declined

\* date.__le__(self, other)
__le__(d, other) ==
  IF other.kind = "date"
    THEN LET c == _cmp(d, other) IN Compared(c, c.value <= 0)
  ELSE Declined

\* __lt__ without the isinstance test
__lt__unchecked(d, other) ==
  LET c == _cmp(d, other) IN Compared(c, c.value < 0)

\* date.__lt__(self, other)
__lt__(d, other) ==
  IF other.kind = "date"
    THEN LET c == _cmp(d, other) IN Compared(c, c.value < 0)
  ELSE Declined

\* __ge__ with a strict comparison
__ge__strict(d, other) ==
  IF other.kind = "date"
    THEN LET c == _cmp(d, other) IN Compared(c, c.value > 0)
  ELSE Declined

\* date.__ge__(self, other)
__ge__(d, other) ==
  IF other.kind = "date"
    THEN LET c == _cmp(d, other) IN Compared(c, c.value >= 0)
  ELSE Declined

\* date.__gt__(self, other)
__gt__(d, other) ==
  IF other.kind = "date"
    THEN LET c == _cmp(d, other) IN Compared(c, c.value > 0)
  ELSE Declined

---------------------------------------------------------------------------
(* location/__init__.py: the tables and the lookups *)

\* a list object and a dict object
ListV(items) == [kind |-> "list", items |-> items]

DictV(fields) == [kind |-> "dict", fields |-> fields]

\* data/provinces.json: the 7 provinces
_provinces ==
  [i \in 1..7 |->
     [id |-> i,
      name_en |-> <<"Koshi Province", "Madhesh Province", "Bagmati Province",
                    "Gandaki Province", "Lumbini Province", "Karnali Province",
                    "Sudurpashchim Province">>[i],
      name_np |-> <<"np-koshi", "np-madhesh", "np-bagmati", "np-gandaki",
                    "np-lumbini", "np-karnali", "np-sudurpashchim">>[i],
      headquarter_en |-> "hq-en",
      headquarter_np |-> "hq-np"]]

\* data/districts.json: two of the districts
_districts ==
  <<[id |-> 1, province_id |-> 1, name_en |-> "Bhojpur", name_np |-> "np-bhojpur",
     headquarter_en |-> "hq-en", headquarter_np |-> "hq-np"],
    [id |-> 2, province_id |-> 7, name_en |-> "Kailali", name_np |-> "np-kailali",
     headquarter_en |-> "hq-en", headquarter_np |-> "hq-np"]>>

\* data/municipalities.json: two of the municipalities
_municipalities ==
  <<[id |-> 1, district_id |-> 1, name_en |-> "Shadanand", name_np |-> "np-shadanand",
     ward_count |-> 14],
    [id |-> 2, district_id |-> 2, name_en |-> "Dhangadhi", name_np |-> "np-dhangadhi",
     ward_count |-> 19]>>

\* the three lists as the module holds them after import
LoadedTables ==
  [provinces |-> _provinces, districts |-> _districts,
   municipalities |-> _municipalities]

SUPPORTED_LANGUAGES == {"en", "np"}

\* str.lower() on the strings that occur
Lower(str) ==
  CASE str = "Koshi Province" -> "koshi province"
    [] str = "Madhesh Province" -> "madhesh province"
    [] str = "Bagmati Province" -> "bagmati province"
    [] str = "Gandaki Province" -> "gandaki province"
    [] str = "Lumbini Province" -> "lumbini province"
    [] str = "Karnali Province" -> "karnali province"
    [] str = "Sudurpashchim Province" -> "sudurpashchim province"
    [] str = "Bhojpur" -> "bhojpur"
    [] str = "Kailali" -> "kailali"
    [] str = "Shadanand" -> "shadanand"
    [] str = "Dhangadhi" -> "dhangadhi"
    [] str = "Non Existing" -> "non existing"
    [] str = "EN" -> "en"
    [] OTHER -> str

\* _base._normalize_mode(mode)
_normalize_mode(mode) ==
  IF mode = None THEN [exc |-> NoExc, value |-> "None"]
  ELSE IF mode.kind # "str" THEN [exc |-> TypeError, value |-> "None"]
  ELSE IF Lower(mode.text) \notin SUPPORTED_LANGUAGES
    THEN [exc |-> ValueError("mode", 0), value |-> "None"]
  ELSE [exc |-> NoExc, value |-> Lower(mode.text)]

\* the keys that start with name_ or headquarter_
LanguageKeys == {"name_en", "name_np", "headquarter_en", "headquarter_np"}

\* _base._get_single_value_by_lang(mode, value), which is also the dict
\* that _get_values_by_lang builds for each value
_get_single_value_by_lang(mode, value) ==
  [k \in (DOMAIN value \ LanguageKeys) \cup {"name", "headquarter"} |->
     IF k = "name" THEN (IF mode = "en" THEN value.name_en ELSE value.name_np)
     ELSE IF k = "headquarter"
       THEN (IF mode = "en" THEN value.headquarter_en ELSE value.headquarter_np)
     ELSE value[k]]

\* _base._get_values_by_lang(mode, values)
_get_values_by_lang(mode, values) ==
  [i \in 1..Len(values) |-> _get_single_value_by_lang(mode, values[i])]

\* next(..., None) over the positions: the first one, or 0 for None
First(positions) ==
  IF positions = {} THEN 0
  ELSE CHOOSE i \in positions : \A j \in positions : i <= j

\* _base._get_by_id(id, values): the position of the first match, 0 if none
_get_by_id(id, values) ==
  First({i \in 1..Len(values) : values[i].id = id})

\* _base._get_by_name(name, values): the position of the first match
_get_by_name(name, values) ==
  First({i \in 1..Len(values) :
           \/ Lower(values[i].name_en) = Lower(name)
           \/ values[i].name_np = name})

\* the ascending sequence of the elements of a set of positions
RECURSIVE Ascending(_)
Ascending(positions) ==
  IF positions = {} THEN <<>>
  ELSE <<First(positions)>> \o Ascending(positions \ {First(positions)})

(* What a lookup hands to its caller: the exception or the value, and which
   object the value is.  "fresh": an object no one else holds; "cache": the
   list stored in the lru_cache under key; "table": the dict at position
   idx of a table; "rawlist": a new list of the dicts at positions idxs of a
   table. *)
Raised(e) == [exc |-> e, value |-> None, ref |-> [ref |-> "none"]]

Fresh(v) == [exc |-> NoExc, value |-> v, ref |-> [ref |-> "fresh", value |-> v]]

\* the lru_cache of the all() methods, before the first call
EmptyCache == [key \in {} |-> None]

\* provinces.all(mode) and districts.all(mode) without the lru_cache
all_uncached(cls, mode, tbls) ==
  LET nm == _normalize_mode(mode) IN
    IF nm.exc # NoExc THEN Raised(nm.exc)
    ELSE IF nm.value \in SUPPORTED_LANGUAGES
      THEN Fresh(ListV(_get_values_by_lang(nm.value, tbls[cls])))
    ELSE Fresh(ListV(tbls[cls]))

\* municipalities.all() without the lru_cache
municipalities_all_uncached(tbls) == Fresh(ListV(tbls.municipalities))

\* functools.lru_cache(maxsize=None) around a call: the stored object on a
\* hit; on a miss the result is stored unless the call raised
lru_cache(key, computed, cch) ==
  IF key \in DOMAIN cch
    THEN [exc |-> NoExc, value |-> cch[key], ref |-> [ref |-> "cache", key |-> key],
          cache |-> cch]
  ELSE IF computed.exc # NoExc
    THEN [exc |-> computed.exc, value |-> None, ref |-> [ref |-> "none"],
          cache |-> cch]
  ELSE [exc |-> NoExc, value |-> computed.value,
        ref |-> [ref |-> "cache", key |-> key],
        cache |-> [k \in DOMAIN cch \cup {key} |->
                     IF k = key THEN computed.value ELSE cch[k]]]

\* provinces.all(mode) and districts.all(mode)
all(cls, mode, tbls, cch) ==
  lru_cache(<<cls, mode>>, all_uncached(cls, mode, tbls), cch)

\* municipalities.all()
municipalities_all(tbls, cch) ==
  lru_cache(<<"municipalities", None>>, municipalities_all_uncached(tbls), cch)

\* the truth value of an argument: None, "" and 0 are false
Truthy(v) ==
  CASE v.kind = "None" -> FALSE
    [] v.kind = "str" -> v.text # ""
    [] v.kind = "int" -> v.val # 0
    [] OTHER -> TRUE

\* provinces.get(id, name, mode) and districts.get(id, name, mode)
get(cls, id, name, mode, tbls) ==
  IF id = None /\ name = None THEN Raised(ValueError("id", 0))
  ELSE IF id # None /\ id.kind # "int" THEN Raised(TypeError)
  ELSE IF id = None /\ Truthy(name) /\ name.kind # "str" THEN Raised(TypeError)
  ELSE LET result == IF id # None THEN _get_by_id(id.val, tbls[cls])
                     ELSE IF Truthy(name) THEN _get_by_name(name.text, tbls[cls])
                     ELSE 0
       IN IF result = 0 THEN Fresh(None)
          ELSE LET nm == _normalize_mode(mode) IN
            IF nm.exc # NoExc THEN Raised(nm.exc)
            ELSE IF nm.value \in SUPPORTED_LANGUAGES
              THEN Fresh(DictV(_get_single_value_by_lang(nm.value, tbls[cls][result])))
            ELSE Fresh(DictV(tbls[cls][result]))

\* the id that get_by_province / get_by_district work with: the int itself,
\* or the id of the record that get(name=...) finds, 0 for None
ParentId(cls, parent, tbls) ==
  IF parent.kind = "int" THEN parent.val
  ELSE LET matched == get(cls, None, parent, None, tbls) IN
    IF matched.value = None THEN 0 ELSE matched.value.fields.id

\* districts.get_by_province(province, mode)
get_by_province(province, mode, tbls) ==
  IF province.kind \notin {"int", "str"} THEN Raised(TypeError)
  ELSE LET province_id == ParentId("provinces", province, tbls) IN
    IF province.kind = "str" /\ province_id = 0 THEN Fresh(ListV(<<>>))
    ELSE LET nm == _normalize_mode(mode)
             idxs == Ascending({i \in 1..Len(tbls.districts) :
                                  tbls.districts[i].province_id = province_id})
             filtered == [i \in 1..Len(idxs) |-> tbls.districts[idxs[i]]]
         IN IF nm.exc # NoExc THEN Raised(nm.exc)
            ELSE IF nm.value \in SUPPORTED_LANGUAGES
              THEN Fresh(ListV(_get_values_by_lang(nm.value, filtered)))
            ELSE Fresh(ListV(filtered))

\* municipalities.get(id, name): the dict of the table itself
municipalities_get(id, name, tbls) ==
  IF id = None /\ name = None THEN Raised(ValueError("id", 0))
  ELSE IF id # None /\ id.kind # "int" THEN Raised(TypeError)
  ELSE IF id = None /\ Truthy(name) /\ name.kind # "str" THEN Raised(TypeError)
  ELSE LET idx == IF id # None THEN _get_by_id(id.val, tbls.municipalities)
                  ELSE IF Truthy(name)
                    THEN First({i \in 1..Len(tbls.municipalities) :
                                  Lower(tbls.municipalities[i].name_en)
                                    = Lower(name.text)})
                  ELSE 0
       IN IF idx = 0 THEN Fresh(None)
          ELSE [exc |-> NoExc, value |-> DictV(tbls.municipalities[idx]),
                ref |-> [ref |-> "table", cls |-> "municipalities", idx |-> idx]]

\* municipalities.get_by_district(district): a new list of the table's dicts
get_by_district(district, tbls) ==
  IF district.kind \notin {"int", "str"} THEN Raised(TypeError)
  ELSE LET district_id == ParentId("districts", district, tbls) IN
    IF district.kind = "str" /\ district_id = 0 THEN Fresh(ListV(<<>>))
    ELSE LET idxs == Ascending({i \in 1..Len(tbls.municipalities) :
                                  tbls.municipalities[i].district_id = district_id})
         IN [exc |-> NoExc,
             value |-> ListV([i \in 1..Len(idxs) |-> tbls.municipalities[idxs[i]]]),
             ref |-> [ref |-> "rawlist", cls |-> "municipalities", idxs |-> idxs]]

---------------------------------------------------------------------------
(* Inputs *)

YearInputs == {IntV(n) : n \in (MINYEAR - 1)..(MAXYEAR + 1)}

MonthInputs == {IntV(n) : n \in 0..13}

DayInputs == {IntV(n) : n \in {0, 1, 8} \cup (28..33)}

\* fractional numbers: MINYEAR + 0.5, 9.5 and 1.5
YearFloats == {FloatV(2 * MINYEAR + 1)}

MonthFloats == {FloatV(19)}

DayFloats == {FloatV(3)}

\* the date objects that the constructor returns for these inputs
ValidDates ==
  {DateObj(y.val, m.val, d.val) : <<y, m, d>> \in
     {t \in YearInputs \X MonthInputs \X DayInputs :
        __new__(t[1], t[2], t[3]).exc = NoExc}}

DeltaInputs == {TimeDelta(n) : n \in (0 - MaxDelta)..MaxDelta}

GregorianInputs ==
  {PyDate(REFERENCE_DATE_AD + n) : n \in (0 - MaxDelta)..MaxDelta}

\* arguments of the lookups
ModeInputs == {None, StrV("en"), StrV("fr"), IntV(1)}

IdInputs == {None, IntV(2), IntV(99), StrV("2")}

NameInputs ==
  {None, StrV("Madhesh Province"), StrV("np-koshi"), StrV("Dhangadhi"),
   StrV("Non Existing"), StrV("")}

\* (id, name) of a get: one of the two, none, or both
IdNameInputs ==
  {<<id, None>> : id \in IdInputs} \cup {<<None, name>> : name \in NameInputs}
  \cup {<<IntV(2), StrV("Non Existing")>>}

ParentInputs == {IntV(1), IntV(7), StrV("Koshi Province"), StrV("Kailali"), None}

\* the second at which the Nepal-time day of the reference date begins
ReferenceDayStart ==
  (REFERENCE_DATE_AD - UnixEpochOrdinal) * 86400 - NEPAL_TIME_UTC_OFFSET

\* POSIX timestamps: the first second of a Nepal-time day and the second
\* before it, around the reference date and around 1970-01-01
TimestampInputs ==
  {IntV(ReferenceDayStart + k * 86400 + e) :
     k \in (0 - MaxDelta)..MaxDelta, e \in {-1, 0}}
  \cup {IntV(0 - NEPAL_TIME_UTC_OFFSET - 1), IntV(0 - NEPAL_TIME_UTC_OFFSET), IntV(0)}

\* values that are not instances of the type an operation expects
ForeignInputs == {None, IntV(0)}

---------------------------------------------------------------------------
(* Actions.  A call is made when no result is pending (op = "idle"); the   *)
(* caller then either binds the returned date to its name or drops it.     *)

Init ==
  /\ self = None
  /\ op = "idle"
  /\ args = <<>>
  /\ ret = None
  /\ exc = NoExc
  /\ lookups = <<>>
  /\ tables = LoadedTables
  /\ cache = EmptyCache
  /\ held = [ref |-> "none"]
  /\ lop = "none"
  /\ largs = <<>>
  /\ lret = None
  /\ lexc = NoExc
  /\ nmut = 0

\* date(year, month, day); month and day default to None
New ==
  /\ op = "idle"
  /\ \E year \in YearInputs \cup YearFloats,
        month \in MonthInputs \cup MonthFloats \cup {None},
        day \in DayInputs \cup DayFloats \cup {None} :
       LET r == __new__(year, month, day) IN
         /\ op' = "new"
         /\ args' = <<year, month, day>>
         /\ ret' = r.value
         /\ exc' = r.exc
         /\ lookups' = r.lookups
  /\ UNCHANGED self
  /\ UNCHANGED locvars

\* self.replace(year, month, day), each argument optional
Replace ==
  /\ op = "idle"
  /\ self.kind = "date"
  /\ \E year \in YearInputs \cup {None}, month \in MonthInputs \cup {None},
        day \in DayInputs \cup {None} :
       LET r == replace(self, year, month, day) IN
         /\ op' = "replace"
         /\ args' = <<year, month, day>>
         /\ ret' = r.value
         /\ exc' = r.exc
         /\ lookups' = r.lookups
  /\ UNCHANGED self
  /\ UNCHANGED locvars

\* date.from_datetime_date(from_date)
FromDatetimeDate ==
  /\ op = "idle"
  /\ \E from_date \in GregorianInputs \cup ForeignInputs :
       LET r == from_datetime_date(from_date) IN
         /\ op' = "from_datetime_date"
         /\ args' = <<from_date>>
         /\ ret' = r.value
         /\ exc' = r.exc
         /\ lookups' = r.lookups
  /\ UNCHANGED self
  /\ UNCHANGED locvars

\* date.fromtimestamp(t)
FromTimestamp ==
  /\ op = "idle"
  /\ \E t \in TimestampInputs \cup {None} :
       LET r == fromtimestamp(t) IN
         /\ op' = "fromtimestamp"
         /\ args' = <<t>>
         /\ ret' = r.value
         /\ exc' = r.exc
         /\ lookups' = r.lookups
  /\ UNCHANGED self
  /\ UNCHANGED locvars

\* date.today(): fromtimestamp of the clock's time.time()
Today ==
  /\ op = "idle"
  /\ \E t \in TimestampInputs :
       LET r == fromtimestamp(t) IN
         /\ op' = "today"
         /\ args' = <<>>
         /\ ret' = r.value
         /\ exc' = r.exc
         /\ lookups' = r.lookups
  /\ UNCHANGED self
  /\ UNCHANGED locvars

\* self.year
Year ==
  /\ op = "idle"
  /\ self.kind = "date"
  /\ op' = "year"
  /\ ret' = IntV(date_year(self))
  /\ UNCHANGED <<self, args, exc, lookups>>
  /\ UNCHANGED locvars

\* self.month
Month ==
  /\ op = "idle"
  /\ self.kind = "date"
  /\ op' = "month"
  /\ ret' = IntV(date_month(self))
  /\ UNCHANGED <<self, args, exc, lookups>>
  /\ UNCHANGED locvars

\* self.day
Day ==
  /\ op = "idle"
  /\ self.kind = "date"
  /\ op' = "day"
  /\ ret' = IntV(date_day(self))
  /\ UNCHANGED <<self, args, exc, lookups>>
  /\ UNCHANGED locvars

\* self.isoformat() / str(self)
Isoformat ==
  /\ op = "idle"
  /\ self.kind = "date"
  /\ op' = "isoformat"
  /\ ret' = StrV(isoformat(self))
  /\ UNCHANGED <<self, args, exc, lookups>>
  /\ UNCHANGED locvars

\* self == other
Eq ==
  /\ op = "idle"
  /\ self.kind = "date"
  /\ \E other \in ValidDates \cup ForeignInputs :
       /\ op' = "eq"
       /\ args' = <<other>>
       /\ ret' = __eq__(self, other).value
       /\ exc' = __eq__(self, other).exc
  /\ UNCHANGED <<self, lookups>>
  /\ UNCHANGED locvars

\* self <= other
Le ==
  /\ op = "idle"
  /\ self.kind = "date"
  /\ \E other \in ValidDates \cup ForeignInputs :
       /\ op' = "le"
       /\ args' = <<other>>
       /\ ret' = __le__(self, other).value
       /\ exc' = __le__(self, other).exc
  /\ UNCHANGED <<self, lookups>>
  /\ UNCHANGED locvars

\* self < other
Lt ==
  /\ op = "idle"
  /\ self.kind = "date"
  /\ \E other \in ValidDates \cup ForeignInputs :
       /\ op' = "lt"
       /\ args' = <<other>>
       /\ ret' = __lt__(self, other).value
       /\ exc' = __lt__(self, other).exc
  /\ UNCHANGED <<self, lookups>>
  /\ UNCHANGED locvars

\* self >= other
Ge ==
  /\ op = "idle"
  /\ self.kind = "date"
  /\ \E other \in ValidDates \cup ForeignInputs :
       /\ op' = "ge"
       /\ args' = <<other>>
       /\ ret' = __ge__(self, other).value
       /\ exc' = __ge__(self, other).exc
  /\ UNCHANGED <<self, lookups>>
  /\ UNCHANGED locvars

\* self > other
Gt ==
  /\ op = "idle"
  /\ self.kind = "date"
  /\ \E other \in ValidDates \cup ForeignInputs :
       /\ op' = "gt"
       /\ args' = <<other>>
       /\ ret' = __gt__(self, other).value
       /\ exc' = __gt__(self, other).exc
  /\ UNCHANGED <<self, lookups>>
  /\ UNCHANGED locvars

\* self + other
Add ==
  /\ op = "idle"
  /\ self.kind = "date"
  /\ \E other \in DeltaInputs :
       /\ op' = "add"
       /\ args' = <<other>>
       /\ ret' = __add__(self, other)
  /\ UNCHANGED <<self, exc, lookups>>
  /\ UNCHANGED locvars

\* self - other
Sub ==
  /\ op = "idle"
  /\ self.kind = "date"
  /\ \E other \in DeltaInputs \cup {DateObj(MINYEAR, 1, 1)} :
       /\ op' = "sub"
       /\ args' = <<other>>
       /\ ret' = __sub__(self, other)
  /\ UNCHANGED <<self, exc, lookups>>
  /\ UNCHANGED locvars

\* the caller binds the date that was returned to its name
Rebind ==
  /\ op # "idle"
  /\ exc = NoExc
  /\ ret.kind = "date"
  /\ self' = ret
  /\ op' = "idle"
  /\ args' = <<>>
  /\ ret' = None
  /\ exc' = NoExc
  /\ lookups' = <<>>
  /\ UNCHANGED locvars

\* the caller drops the result (or handles the exception) and goes on
Discard ==
  /\ op # "idle"
  /\ op' = "idle"
  /\ args' = <<>>
  /\ ret' = None
  /\ exc' = NoExc
  /\ lookups' = <<>>
  /\ UNCHANGED self
  /\ UNCHANGED locvars

Next ==
  \/ New
  \/ Replace
  \/ FromDatetimeDate
  \/ FromTimestamp
  \/ Today
  \/ Year
  \/ Month
  \/ Day
  \/ Isoformat
  \/ Eq
  \/ Le
  \/ Lt
  \/ Ge
  \/ Gt
  \/ Add
  \/ Sub
  \/ Rebind
  \/ Discard

Spec == Init /\ [][Next]_vars

---------------------------------------------------------------------------
(* Actions of nepali_toolkit.location.  A lookup is made when no result is *)
(* pending (lop = "none"); the caller then writes to the object it was     *)
(* handed and lets go of it, or just lets go of it.                        *)

LookupNames ==
  {"provinces.all", "districts.all", "municipalities.all", "provinces.get",
   "districts.get", "districts.get_by_province", "municipalities.get",
   "municipalities.get_by_district"}

\* the lookup named name, called with arguments a, handed out r
Returned(name, a, r) ==
  /\ lop = "none"
  /\ lop' = name
  /\ largs' = a
  /\ lret' = r.value
  /\ lexc' = r.exc
  /\ held' = r.ref
  /\ UNCHANGED <<tables, nmut>>
  /\ UNCHANGED datevars

\* provinces.all(mode)
ProvincesAll ==
  \E mode \in ModeInputs :
    LET r == all("provinces", mode, tables, cache) IN
      Returned("provinces.all", <<mode>>, r) /\ cache' = r.cache

\* districts.all(mode)
DistrictsAll ==
  \E mode \in ModeInputs :
    LET r == all("districts", mode, tables, cache) IN
      Returned("districts.all", <<mode>>, r) /\ cache' = r.cache

\* municipalities.all()
MunicipalitiesAll ==
  LET r == municipalities_all(tables, cache) IN
    Returned("municipalities.all", <<>>, r) /\ cache' = r.cache

\* provinces.get(id, name, mode)
ProvincesGet ==
  \E a \in IdNameInputs, mode \in ModeInputs :
    /\ Returned("provinces.get", <<a[1], a[2], mode>>,
                get("provinces", a[1], a[2], mode, tables))
    /\ UNCHANGED cache

\* districts.get(id, name, mode)
DistrictsGet ==
  \E a \in IdNameInputs, mode \in ModeInputs :
    /\ Returned("districts.get", <<a[1], a[2], mode>>,
                get("districts", a[1], a[2], mode, tables))
    /\ UNCHANGED cache

\* districts.get_by_province(province, mode)
DistrictsGetByProvince ==
  \E province \in ParentInputs, mode \in ModeInputs :
    /\ Returned("districts.get_by_province", <<province, mode>>,
                get_by_province(province, mode, tables))
    /\ UNCHANGED cache

\* municipalities.get(id, name)
MunicipalitiesGet ==
  \E a \in IdNameInputs :
    /\ Returned("municipalities.get", <<a[1], a[2]>>,
                municipalities_get(a[1], a[2], tables))
    /\ UNCHANGED cache

\* municipalities.get_by_district(district)
MunicipalitiesGetByDistrict ==
  \E district \in ParentInputs :
    /\ Returned("municipalities.get_by_district", <<district>>,
                get_by_district(district, tables))
    /\ UNCHANGED cache

\* the object the caller holds, as it is now
HeldValue ==
  CASE held.ref = "cache" -> cache[held.key]
    [] held.ref = "fresh" -> held.value
    [] held.ref = "table" -> DictV(tables[held.cls][held.idx])
    [] held.ref = "rawlist" ->
         ListV([i \in 1..Len(held.idxs) |-> tables[held.cls][held.idxs[i]]])
    [] OTHER -> None

Front(items) == SubSeq(items, 1, Len(items) - 1)

\* the caller lets go of what it was handed
LetGo ==
  /\ lop' = "none"
  /\ largs' = <<>>
  /\ lret' = None
  /\ lexc' = NoExc
  /\ held' = [ref |-> "none"]
  /\ UNCHANGED datevars

\* the caller calls pop() on the list it was handed
CallerPops ==
  /\ lop \in LookupNames
  /\ nmut < MaxMutations
  /\ HeldValue.kind = "list"
  /\ HeldValue.items # <<>>
  /\ cache' = IF held.ref = "cache"
                THEN [cache EXCEPT ![held.key] = ListV(Front(HeldValue.items))]
              ELSE cache
  /\ nmut' = nmut + 1
  /\ UNCHANGED tables
  /\ LetGo

\* the caller assigns 0 to the "id" of the dict it was handed, or of the
\* first dict of the list it was handed
CallerAssigns ==
  /\ lop \in LookupNames
  /\ nmut < MaxMutations
  /\ \/ HeldValue.kind = "dict"
     \/ HeldValue.kind = "list" /\ HeldValue.items # <<>>
  /\ cache' = IF held.ref = "cache"
                THEN [cache EXCEPT ![held.key] =
                        ListV([HeldValue.items EXCEPT ![1] = [@ EXCEPT !.id = 0]])]
              ELSE cache
  /\ tables' = IF held.ref = "table"
                 THEN [tables EXCEPT ![held.cls][held.idx].id = 0]
               ELSE IF held.ref = "rawlist"
                 THEN [tables EXCEPT ![held.cls][held.idxs[1]].id = 0]
               ELSE tables
  /\ nmut' = nmut + 1
  /\ LetGo

\* the caller drops the result (or handles the exception) and goes on
CallerDrops ==
  /\ lop \in LookupNames
  /\ UNCHANGED <<tables, cache, nmut>>
  /\ LetGo

NextLocation ==
  \/ ProvincesAll
  \/ DistrictsAll
  \/ MunicipalitiesAll
  \/ ProvincesGet
  \/ DistrictsGet
  \/ DistrictsGetByProvince
  \/ MunicipalitiesGet
  \/ MunicipalitiesGetByDistrict
  \/ CallerPops
  \/ CallerAssigns
  \/ CallerDrops

SpecLocation == Init /\ [][NextLocation]_vars

---------------------------------------------------------------------------
(* Vocabulary of the properties *)

\* the error taxonomy of the design: which class an exception belongs to
ErrorKind(e) ==
  IF e.type = "ValueError" /\ e.field \in {"year", "month"} THEN "OutOfRange"
  ELSE IF e.type = "ValueError" /\ e.field = "day" THEN "InvalidDay"
  ELSE IF e.type = "TypeError" THEN "InvalidArgument"
  ELSE e.type

Epoch == DateObj(MINYEAR, 1, 1)

YearInRange(y) == MINYEAR <= y /\ y <= MAXYEAR

MonthInRange(m) == 1 <= m /\ m <= 12

IsValidDate(v) ==
  /\ v.kind = "date"
  /\ YearInRange(v.year)
  /\ MonthInRange(v.month)
  /\ 1 <= v.day
  /\ v.day <= _CALENDAR[v.year][v.month]

CompareOps == {"eq", "le", "lt", "ge", "gt"}

Sign(n) == IF n > 0 THEN 1 ELSE IF n < 0 THEN -1 ELSE 0

RECURSIVE SumMonths(_, _)
\* the total length of the first k months of year y
SumMonths(y, k) == IF k = 0 THEN 0 ELSE SumMonths(y, k - 1) + _CALENDAR[y][k]

RECURSIVE SumYears(_, _)
\* the total length of the years lo..hi
SumYears(lo, hi) == IF hi < lo THEN 0 ELSE SumYears(lo, hi - 1) + SumMonths(hi, 12)

\* to_ordinal of the design, section 4.3, as worded: the full years
\* strictly between MINYEAR and date.year, the months before date.month,
\* plus date.day
to_ordinal(d) ==
  SumYears(MINYEAR + 1, d.year - 1) + SumMonths(d.year, d.month - 1) + d.day

\* the sum taken over the full years from MINYEAR up to, not including,
\* date.year
to_ordinal_from_minyear(d) ==
  SumYears(MINYEAR, d.year - 1) + SumMonths(d.year, d.month - 1) + d.day

\* the result each comparison operator must give when the two dates are
\* linearised by ord
AgreesWithOrdinal(ord(_)) ==
  (op \in CompareOps /\ args[1].kind = "date") =>
    LET diff == ord(self) - ord(args[1]) IN
      ret = BoolV(CASE op = "eq" -> diff = 0
                    [] op = "le" -> diff <= 0
                    [] op = "lt" -> diff < 0
                    [] op = "ge" -> diff >= 0
                    [] op = "gt" -> diff > 0)

\* (year, month, day) of a is before that of b: year first, then month, then day
LexLess(a, b) ==
  \/ a.year < b.year
  \/ a.year = b.year /\ a.month < b.month
  \/ a.year = b.year /\ a.month = b.month /\ a.day < b.day

SameTriple(a, b) == a.year = b.year /\ a.month = b.month /\ a.day = b.day

DigitValue(c) == CHOOSE n \in 0..9 : DigitChar(n) = c

IsDigit(c) == \E n \in 0..9 : DigitChar(n) = c

---------------------------------------------------------------------------
(* Properties *)

\* C1: every value a public operation returns without raising (constructor,
\* replace, from_datetime_date, +) is a date whose year is in
\* MINYEAR..MAXYEAR, month in 1..12 and day in 1..days_in_month(year, month).
C1_ReturnedValuesAreValidDates ==
  (op \in {"new", "replace", "from_datetime_date", "add"} /\ exc = NoExc)
    => IsValidDate(ret)

\* C2: on integers the constructor validates year, then month, then day and
\* reports the first failure only: a bad year is OutOfRange whatever month and day are, a
\* bad month with a good year is OutOfRange whatever day is, a day error is
\* InvalidDay and needs a good year and month, and the calendar table is
\* only ever looked up with a year and a month that are in range.
C2_ValidationOrder ==
  /\ (op = "new" /\ \A i \in 1..3 : args[i].kind = "int") =>
       LET y == args[1].val
           m == args[2].val
           d == args[3].val
       IN /\ ~YearInRange(y) =>
               exc = ValueError("year", y) /\ ErrorKind(exc) = "OutOfRange"
          /\ (YearInRange(y) /\ ~MonthInRange(m)) =>
               exc = ValueError("month", m) /\ ErrorKind(exc) = "OutOfRange"
          /\ ErrorKind(exc) = "InvalidDay" =>
               YearInRange(y) /\ MonthInRange(m) /\ exc = ValueError("day", d)
          /\ exc # NoExc => ret = None
  /\ \A i \in 1..Len(lookups) :
       YearInRange(lookups[i][1]) /\ MonthInRange(lookups[i][2])

C2_Witness ==
  /\ op = "new"
  /\ args = <<IntV(MAXYEAR + 1), IntV(13), IntV(0)>>
  /\ exc = ValueError("year", MAXYEAR + 1)

\* C3: for every year and month of the table, constructing the date of the
\* month's last day succeeds and its accessors return that year, month and
\* day, while the day after the last and day 0 fail with InvalidDay.
C3_MonthLengthBoundary ==
  (/\ op = "new"
   /\ \A i \in 1..3 : args[i].kind = "int"
   /\ YearInRange(args[1].val)
   /\ MonthInRange(args[2].val)) =>
    LET y == args[1].val
        m == args[2].val
        d == args[3].val
        dim == CalendarData[y][m]
    IN /\ d = dim =>
            /\ exc = NoExc
            /\ ret.kind = "date"
            /\ <<date_year(ret), date_month(ret), date_day(ret)>> = <<y, m, dim>>
       /\ d \in {0, dim + 1} =>
            ErrorKind(exc) = "InvalidDay" /\ ret = None

C3_Witness ==
  /\ op = "new"
  /\ args = <<IntV(MINYEAR), IntV(2), IntV(32)>>
  /\ ret = DateObj(MINYEAR, 2, 32)
  /\ exc = NoExc

\* C4: the day count of a date from the epoch date(MINYEAR, 1, 1), added
\* back to the epoch, gives the date again, and the epoch is at day count 0.
C4_OrdinalRoundTrip ==
  (op = "sub" /\ args[1] = Epoch) =>
    /\ ret.kind = "timedelta"
    /\ __add__(Epoch, ret) = self
    /\ self = Epoch => ret = TimeDelta(0)

\* C5: a + delta is a date r whose difference from a is delta days exactly.
C5_AddThenDifference ==
  op = "add" =>
    /\ ret.kind = "date"
    /\ __sub__(ret, self) = args[1]

\* C6: from_datetime_date maps the reference Gregorian date to
\* date(MINYEAR, 1, 1) and a Gregorian date n days from the reference to the
\* date n days from the epoch, so that converting back gives the Gregorian
\* date again.
C6_ReferenceDateRoundTrip ==
  (op = "from_datetime_date" /\ args[1].kind = "datetime.date") =>
    /\ ret.kind = "date"
    /\ args[1] = PyDate(REFERENCE_DATE_AD) => ret = Epoch
    /\ __sub__(ret, Epoch) = TimeDelta(args[1].ordinal - REFERENCE_DATE_AD)

\* C7 (as stated): each comparison of two valid dates agrees with the sign
\* of to_ordinal(a) - to_ordinal(b), to_ordinal being the sum over the years
\* strictly between MINYEAR and the date's year.
C7_CompareAgreesWithOrdinal == AgreesWithOrdinal(to_ordinal)

\* C7 (amended): each comparison of two valid dates agrees with the sign of
\* the difference of their ordinals when the ordinal sums the full years
\* from MINYEAR (included) up to the date's year (excluded), the months
\* before the date's month, and the day.
C7_CompareAgreesWithOrdinalFromMinyear ==
  AgreesWithOrdinal(to_ordinal_from_minyear)

C7_Witness ==
  /\ op = "lt"
  /\ self = Epoch
  /\ args = <<DateObj(MINYEAR + 1, 1, 1)>>
  /\ ret = BoolV(TRUE)

\* C8: for two valid dates exactly one of a < b, a == b, a > b is true,
\* decided by the order of (year, month, day) with the year first; a <= b
\* is a < b or a == b, a >= b is a > b or a == b, and dates with equal
\* triples are equal.
C8_TotalLexicographicOrder ==
  (op \in CompareOps /\ args[1].kind = "date") =>
    LET a == self
        b == args[1]
        lt == __lt__(a, b).value = BoolV(TRUE)
        eq == __eq__(a, b).value = BoolV(TRUE)
        gt == __gt__(a, b).value = BoolV(TRUE)
    IN /\ ret = BoolV(CASE op = "eq" -> SameTriple(a, b)
                        [] op = "lt" -> LexLess(a, b)
                        [] op = "gt" -> LexLess(b, a)
                        [] op = "le" -> lt \/ eq
                        [] op = "ge" -> gt \/ eq)
       /\ Cardinality({i \in 1..3 : <<lt, eq, gt>>[i]}) = 1

C8_Witness ==
  /\ op = "gt"
  /\ self = DateObj(2078, 9, 1)
  /\ args = <<DateObj(2078, 2, 8)>>
  /\ ret = BoolV(TRUE)

\* C9: isoformat of a valid date is the 10 characters YYYY-MM-DD: four
\* digits of the year, a hyphen, two digits of the month, a hyphen, two
\* digits of the day, zero-padded; date(2078, 9, 1) gives "2078-09-01", and
\* no other date gives the same text.
C9_IsoformatFixedWidth ==
  op = "isoformat" =>
    LET t == ret.text IN
      /\ ret.kind = "str"
      /\ Len(t) = 10
      /\ t[5] = "-" /\ t[8] = "-"
      /\ \A i \in {1, 2, 3, 4, 6, 7, 9, 10} : IsDigit(t[i])
      /\ self.year = 1000 * DigitValue(t[1]) + 100 * DigitValue(t[2])
                       + 10 * DigitValue(t[3]) + DigitValue(t[4])
      /\ self.month = 10 * DigitValue(t[6]) + DigitValue(t[7])
      /\ self.day = 10 * DigitValue(t[9]) + DigitValue(t[10])
      /\ self = DateObj(2078, 9, 1) =>
           t = <<"2", "0", "7", "8", "-", "0", "9", "-", "0", "1">>
      /\ \A d \in ValidDates : d # self => isoformat(d) # t

C9_Witness ==
  /\ op = "isoformat"
  /\ self = DateObj(2078, 9, 1)
  /\ ret = StrV(<<"2", "0", "7", "8", "-", "0", "9", "-", "0", "1">>)

\* C10: replace returns a new date with the supplied fields replaced and the
\* omitted ones kept; when that triple is not a valid date it raises the
\* error the constructor raises for it and returns nothing (no field is
\* clamped or defaulted); the date it was called on keeps its fields.
C10_ReplaceOverridesOrFails ==
  [][op' = "replace" =>
       LET y == IF args'[1] = None THEN self.year ELSE args'[1].val
           m == IF args'[2] = None THEN self.month ELSE args'[2].val
           d == IF args'[3] = None THEN self.day ELSE args'[3].val
           c == __new__(IntV(y), IntV(m), IntV(d))
       IN /\ self' = self
          /\ exc' = c.exc
          /\ IF IsValidDate(DateObj(y, m, d))
               THEN exc' = NoExc /\ ret' = DateObj(y, m, d)
               ELSE exc'.type = "ValueError" /\ ret' = None]_vars

C10_Witness ==
  /\ op = "replace"
  /\ self = DateObj(MINYEAR, 2, 32)
  /\ args = <<None, IntV(3), None>>
  /\ exc = ValueError("day", 32)
  /\ ret = None

\* C11: the constructor fails with InvalidArgument whenever one of its three
\* inputs is not an integer (a fractional number, an absent month or day),
\* and returns no date then.
C11_NonIntegralRejected ==
  (op = "new" /\ \E i \in 1..3 : args[i].kind # "int") =>
    ErrorKind(exc) = "InvalidArgument" /\ ret = None

\* C12: each of ==, <, <=, >, >= applied to a date and a value that is not a
\* date returns NotImplemented and raises nothing: the assertion of _cmp is
\* never reached with such a value.
C12_ForeignOperandNotComparable ==
  (op \in CompareOps /\ args[1].kind # "date") =>
    ret = NotImplemented /\ exc = NoExc

C12_Witness ==
  /\ op = "lt"
  /\ self = DateObj(2078, 9, 1)
  /\ args = <<IntV(0)>>
  /\ ret = NotImplemented
  /\ exc = NoExc

\* the day of Nepal time that holds second t, counted from 1970-01-01
NepalDay(t) == (t + 20700) \div 86400

\* C13: fromtimestamp(t) returns the BS date that from_datetime_date gives
\* for the Gregorian day floor((t + 20700) / 86400) after 1970-01-01, also
\* for negative t: timestamps of the same Nepal-time day give the same date
\* and timestamps of different days give different dates (the date changes
\* at 18:15:00 UTC); an absent timestamp fails with InvalidArgument.
C13_TimestampToNepalDay ==
  op = "fromtimestamp" =>
    IF args[1] = None
      THEN ErrorKind(exc) = "InvalidArgument" /\ ret = None
    ELSE LET t == args[1].val IN
      /\ exc = NoExc
      /\ ret = from_datetime_date(PyDate(UnixEpochOrdinal + NepalDay(t))).value
      /\ ret.kind = "date"
      /\ \A u \in TimestampInputs :
           (fromtimestamp(u).value = ret) <=> (NepalDay(u.val) = NepalDay(t))

\* what the lookup named name gives for arguments a when the tables are as
\* they were loaded and nothing was handed out before
Pristine(name, a) ==
  CASE name = "provinces.all" -> all("provinces", a[1], LoadedTables, EmptyCache)
    [] name = "districts.all" -> all("districts", a[1], LoadedTables, EmptyCache)
    [] name = "municipalities.all" -> municipalities_all(LoadedTables, EmptyCache)
    [] name = "provinces.get" -> get("provinces", a[1], a[2], a[3], LoadedTables)
    [] name = "districts.get" -> get("districts", a[1], a[2], a[3], LoadedTables)
    [] name = "districts.get_by_province" -> get_by_province(a[1], a[2], LoadedTables)
    [] name = "municipalities.get" -> municipalities_get(a[1], a[2], LoadedTables)
    [] name = "municipalities.get_by_district" -> get_by_district(a[1], LoadedTables)

\* C14: whatever the caller wrote to the lists and records earlier lookups
\* handed out, a lookup returns what it returns from the tables as loaded:
\* provinces.all() the complete list of the 7 provinces, get(...) the
\* original record; the tables themselves stay as loaded.
C14_TablesReadOnly ==
  /\ tables = LoadedTables
  /\ lop \in LookupNames =>
       /\ lret = Pristine(lop, largs).value
       /\ lexc = Pristine(lop, largs).exc
  /\ (lop = "provinces.all" /\ largs = <<None>>) => Len(lret.items) = 7

====
